---- MODULE Spec2Model ----
(***************************************************************************)
(* Authentication and session-trust subsystem of the contacts backend:     *)
(* the user store, the JWT codec, the redis user cache, the background     *)
(* mail queue and the handlers of src/api/auth.py and                      *)
(* src/services/auth.py, one action per handler; and the contact table     *)
(* with the methods of src/repository/contacts.py. register_user and       *)
(* get_current_user are also modelled await by await, for requests that    *)
(* run concurrently.                                                       *)
(***************************************************************************)
EXTENDS Integers, Sequences, FiniteSets, TLC

VARIABLES users, cache, tasks, tokens, now, last, contacts, db, reqs

vars == <<users, cache, tasks, tokens, now, last, contacts, db, reqs>>

(* ---------------------------------------------------------------- bounds *)

\* tokens a client keeps at the same time (login responses, delivered mails)
MaxTokens == 1
\* background tasks waiting to be run
MaxTasks == 1

(* ------------------------------------------------------------- constants *)

\* timedelta(seconds=180) of create_reset_token
RESET_SECONDS == 180
\* settings.JWT_EXPIRATION_SECONDS, the session lifetime
JWT_EXPIRATION_SECONDS == 3600
\* redis_client.setex(key, 3600, ...)
CACHE_SECONDS == 3600
\* timedelta(days=7) of create_email_token, in seconds
EMAIL_SECONDS == 7 * 86400

(* ---------------------------------------------------------------- inputs *)

\* username strings of the requests; one of them is spelled like an email
Usernames == {"alice", "a@x.com"}
\* email strings of the requests
Emails == {"a@x.com", "b@x.com"}
\* plaintext passwords of the requests
Passwords == {"pw1", "pw2"}
\* salts bcrypt can draw, and the ones it draws in the requests of Next
Salts == {"s1", "s2"}
DrawnSalts == {"s1"}

None == "None"
\* an absent integer (no iat claim, no record)
NoInt == 0 - 1

\* the instants the clock visits: a lifetime, and one second past it
SessionInstants == {JWT_EXPIRATION_SECONDS, JWT_EXPIRATION_SECONDS + 1}
\* the expires_delta arguments of create_access_token: None (as 0) and two
\* lifetimes in seconds
Deltas == {0, 1, 2}
\* the instants around the end of a session token of each lifetime
TokenInstants ==
  {1, 2, 3, JWT_EXPIRATION_SECONDS, JWT_EXPIRATION_SECONDS + 1}
\* the instants around the end of a reset token and of a confirmation token
ExpiryInstants ==
  {RESET_SECONDS, RESET_SECONDS + 1, EMAIL_SECONDS, EMAIL_SECONDS + 1}

(* ------------------------------------------------------ Credential hasher *)

\* passlib bcrypt, CryptContext.hash: a string that holds the salt and a
\* one-way digest of the password under it, never the password itself
get_password_hash(password, salt) ==
  CASE password = "pw1" /\ salt = "s1" -> "$2b$s1$d1a"
    [] password = "pw1" /\ salt = "s2" -> "$2b$s2$d1b"
    [] password = "pw2" /\ salt = "s1" -> "$2b$s1$d2a"
    [] password = "pw2" /\ salt = "s2" -> "$2b$s2$d2b"

\* mutant: any well-formed hash verifies
verify_password_any(plain_password, hashed_password) ==
  \E salt \in Salts :
    hashed_password \in {get_password_hash(p, salt) : p \in Passwords}

\* CryptContext.verify: hash the password again under the salt the stored
\* hash holds and compare
verify_password(plain_password, hashed_password) ==
  \E salt \in Salts :
    /\ hashed_password \in {get_password_hash(p, salt) : p \in Passwords}
    /\ hashed_password = get_password_hash(plain_password, salt)

(* ------------------------------------------------------------ Token codec *)

\* jwt.encode of a claim set under settings.JWT_SECRET; `kind' records which
\* function issued the token and is read by no decoder
Jwt(sub, exp, iat, kind) ==
  [sub |-> sub, exp |-> exp, iat |-> iat, kind |-> kind, sig |-> "ok"]

NoToken == [sub |-> None, exp |-> NoInt, iat |-> NoInt, kind |-> "none", sig |-> "none"]

\* mutant: to_encode starts empty instead of as data.copy()
create_access_token_nosub(sub, expires_delta) ==
  Jwt(None, now + JWT_EXPIRATION_SECONDS, NoInt, "session")

\* mutant: expires_delta is ignored and every token gets the configured lifetime
create_access_token_nodelta(sub, expires_delta) ==
  Jwt(sub, now + JWT_EXPIRATION_SECONDS, NoInt, "session")

\* expires_delta 0 stands for the default None; both are falsy at line 64
create_access_token(sub, expires_delta) ==
  IF expires_delta # 0
  THEN Jwt(sub, now + expires_delta, NoInt, "session")
  ELSE Jwt(sub, now + JWT_EXPIRATION_SECONDS, NoInt, "session")

create_email_token(email) == Jwt(email, now + EMAIL_SECONDS, now, "email")

\* mutant: the reset token gets the lifetime of the confirmation token
create_reset_token_week(email) == Jwt(email, now + EMAIL_SECONDS, NoInt, "reset")

create_reset_token(email) == Jwt(email, now + RESET_SECONDS, NoInt, "reset")

\* tokens signed with another key, with and without a subject
ForgedTokens ==
  {[sub |-> s, exp |-> EMAIL_SECONDS + 1, iat |-> NoInt, kind |-> "forged", sig |-> "bad"] :
     s \in {"alice", None}}

\* mutant: the signature is not verified
jwt_decode_sub_nosig(token) ==
  IF token.exp < now THEN "JWTError"
  ELSE IF token.sub = None THEN "KeyError"
  ELSE token.sub

\* mutant: decoded with verify_exp off
jwt_decode_sub_noexp(token) ==
  IF token.sig # "ok" THEN "JWTError"
  ELSE IF token.sub = None THEN "KeyError"
  ELSE token.sub

\* jwt.decode followed by payload["sub"]: the signature, then exp against the
\* clock (python-jose rejects exp < now), then the subscript
jwt_decode_sub(token) ==
  IF token.sig # "ok" THEN "JWTError"
  ELSE IF token.exp < now THEN "JWTError"
  ELSE IF token.sub = None THEN "KeyError"
  ELSE token.sub

\* verify_reset_token: the subject, or None on a JWTError
verify_reset_token(token) ==
  IF jwt_decode_sub(token) = "JWTError" THEN None ELSE jwt_decode_sub(token)

(* ------------------------------------------------------------- User store *)

UserIds == 1..Len(users)

\* mutant: filter_by(email=username)
get_user_by_username_byemail(username) ==
  LET hit == {i \in UserIds : users[i].email = username}
  IN IF hit = {} THEN NoInt ELSE CHOOSE i \in hit : TRUE

\* the id of the record with that username, NoInt for None
get_user_by_username(username) ==
  LET hit == {i \in UserIds : users[i].username = username}
  IN IF hit = {} THEN NoInt ELSE CHOOSE i \in hit : TRUE

\* mutant: filter_by(username=email)
get_user_by_email_byname(email) ==
  LET hit == {i \in UserIds : users[i].username = email}
  IN IF hit = {} THEN NoInt ELSE CHOOSE i \in hit : TRUE

\* the id of the record with that email, NoInt for None
get_user_by_email(email) ==
  LET hit == {i \in UserIds : users[i].email = email}
  IN IF hit = {} THEN NoInt ELSE CHOOSE i \in hit : TRUE

\* libgravatar: the avatar address is derived from the email
Gravatar(email) == <<"gravatar", email>>

\* UserRepository.create_user: every field of the body but the password, the
\* body's password as hashed_password, the next id, confirmed defaulting false
create_user(body) ==
  [id |-> Len(users) + 1, username |-> body.username, email |-> body.email,
   hashed_password |-> body.password, confirmed |-> FALSE,
   avatar |-> Gravatar(body.email)]

\* mutant: the flag is set without the filter on the email
repo_confirmed_email_all(email) ==
  [i \in UserIds |-> [users[i] EXCEPT !.confirmed = TRUE]]

\* UserRepository.confirmed_email
repo_confirmed_email(email) ==
  [users EXCEPT ![get_user_by_email(email)].confirmed = TRUE]

\* mutant: a new password also takes the confirmation away
update_password_unconfirm(email, new_password) ==
  [users EXCEPT ![get_user_by_email(email)] =
     [@ EXCEPT !.hashed_password = new_password, !.confirmed = FALSE]]

\* mutant: the hash is assigned without the filter on the email
update_password_all(email, new_password) ==
  [i \in UserIds |-> [users[i] EXCEPT !.hashed_password = new_password]]

\* mutant: the new hash is never assigned
update_password_nowrite(email, new_password) == users

\* UserRepository.update_password
update_password(email, new_password) ==
  [users EXCEPT ![get_user_by_email(email)].hashed_password = new_password]

\* response_model=User: the view of a record a response carries
UserView(u) ==
  [id |-> u.id, username |-> u.username, email |-> u.email, avatar |-> u.avatar]

(* ------------------------------------------------------------- User cache *)

CacheKey(username) == <<"user", username>>

\* redis GET: the value of a key that is present and not expired
CacheLive(username) ==
  /\ CacheKey(username) \in DOMAIN cache
  /\ now < cache[CacheKey(username)].exp

\* mutant: SET without EX, the key outlives every instant of the clock
CacheSetex_noexpire(username, ttl, value) ==
  [k \in DOMAIN cache \cup {CacheKey(username)} |->
     IF k = CacheKey(username) THEN [value |-> value, exp |-> now + 2 * EMAIL_SECONDS]
     ELSE cache[k]]

\* redis SETEX key ttl value
CacheSetex(username, ttl, value) ==
  [k \in DOMAIN cache \cup {CacheKey(username)} |->
     IF k = CacheKey(username) THEN [value |-> value, exp |-> now + ttl]
     ELSE cache[k]]

(* ------------------------------------------------------------- responses *)

NoBody == [none |-> TRUE]

\* what the latest step answered: the operation, the status code, which answer
\* of the handler it is, the username or email it is about, and its body
Response(op, who, status, detail, body) ==
  [op |-> op, who |-> who, status |-> status, detail |-> detail, body |-> body]

\* BackgroundTasks.add_task
add_task(task, email, username) ==
  Append(tasks, [task |-> task, email |-> email, username |-> username])

\* requests that are between two awaits of their handler
Requests == {1, 2}
Idle == [pc |-> "idle"]

Init ==
  /\ users = <<>>
  /\ cache = <<>>
  /\ tasks = <<>>
  /\ tokens = {}
  /\ now = 0
  /\ last = Response("start", None, 0, None, NoBody)
  /\ contacts = {}
  /\ db = [calls |-> <<>>, contact_id_seq |-> 0]
  /\ reqs = [r \in Requests |-> Idle]

(* -------------------------------------------------------------- register *)

\* mutant: line 54 is skipped and the password is stored as it came
register_user_plaintext(username, email, password, salt) ==
  IF get_user_by_email(email) # NoInt
  THEN /\ last' = Response("register", email, 409, "EmailConflict", NoBody)
       /\ UNCHANGED <<users, cache, tasks, tokens, now, contacts, db, reqs>>
  ELSE IF get_user_by_username(username) # NoInt
  THEN /\ last' = Response("register", email, 409, "UsernameConflict", NoBody)
       /\ UNCHANGED <<users, cache, tasks, tokens, now, contacts, db, reqs>>
  ELSE LET new_user == create_user([username |-> username, email |-> email,
                                    password |-> password])
       IN /\ Len(tasks) < MaxTasks
          /\ users' = Append(users, new_user)
          /\ tasks' = add_task("send_email", new_user.email, new_user.username)
          /\ last' = Response("register", email, 201, None, UserView(new_user))
          /\ UNCHANGED <<cache, tokens, now, contacts, db, reqs>>

\* mutant: send_email is awaited in the handler instead of being queued
register_user_inline(username, email, password, salt) ==
  IF get_user_by_email(email) # NoInt
  THEN /\ last' = Response("register", email, 409, "EmailConflict", NoBody)
       /\ UNCHANGED <<users, cache, tasks, tokens, now, contacts, db, reqs>>
  ELSE IF get_user_by_username(username) # NoInt
  THEN /\ last' = Response("register", email, 409, "UsernameConflict", NoBody)
       /\ UNCHANGED <<users, cache, tasks, tokens, now, contacts, db, reqs>>
  ELSE LET new_user == create_user([username |-> username, email |-> email,
                                    password |-> get_password_hash(password, salt)])
       IN /\ Cardinality(tokens \cup {create_email_token(new_user.email)}) <= MaxTokens
          /\ users' = Append(users, new_user)
          /\ tokens' = tokens \cup {create_email_token(new_user.email)}
          /\ last' = Response("register", email, 201, None, UserView(new_user))
          /\ UNCHANGED <<cache, tasks, now, contacts, db, reqs>>

register_user(username, email, password, salt) ==
  IF get_user_by_email(email) # NoInt
  THEN /\ last' = Response("register", email, 409, "EmailConflict", NoBody)
       /\ UNCHANGED <<users, cache, tasks, tokens, now, contacts, db, reqs>>
  ELSE IF get_user_by_username(username) # NoInt
  THEN /\ last' = Response("register", email, 409, "UsernameConflict", NoBody)
       /\ UNCHANGED <<users, cache, tasks, tokens, now, contacts, db, reqs>>
  ELSE LET new_user == create_user([username |-> username, email |-> email,
                                    password |-> get_password_hash(password, salt)])
       IN /\ Len(tasks) < MaxTasks
          /\ users' = Append(users, new_user)
          /\ tasks' = add_task("send_email", new_user.email, new_user.username)
          /\ last' = Response("register", email, 201, None, UserView(new_user))
          /\ UNCHANGED <<cache, tokens, now, contacts, db, reqs>>

(* ----------------------------------------------------------------- login *)

\* mutant: the password is not verified
login_result_noverify(username, password) ==
  LET user == get_user_by_username(username)
  IN IF user = NoInt
     THEN [status |-> 401, detail |-> "InvalidCredentials"]
     ELSE IF ~users[user].confirmed
     THEN [status |-> 401, detail |-> "EmailNotConfirmed"]
     ELSE [status |-> 200, detail |-> None]

\* mutant: the confirmed flag is not checked
login_result_noconfirm(username, password) ==
  LET user == get_user_by_username(username)
  IN IF user = NoInt \/ ~verify_password(password, users[user].hashed_password)
     THEN [status |-> 401, detail |-> "InvalidCredentials"]
     ELSE [status |-> 200, detail |-> None]

\* mutant: a live cache entry of the username is trusted instead of the store
login_result_cached(username, password) ==
  LET user == get_user_by_username(username)
  IN IF user # NoInt /\ CacheLive(username)
     THEN [status |-> 200, detail |-> None]
     ELSE IF user = NoInt \/ ~verify_password(password, users[user].hashed_password)
     THEN [status |-> 401, detail |-> "InvalidCredentials"]
     ELSE IF ~users[user].confirmed
     THEN [status |-> 401, detail |-> "EmailNotConfirmed"]
     ELSE [status |-> 200, detail |-> None]

\* the answer of login_user before a token is made: lines 86-98
login_result(username, password) ==
  LET user == get_user_by_username(username)
  IN IF user = NoInt \/ ~verify_password(password, users[user].hashed_password)
     THEN [status |-> 401, detail |-> "InvalidCredentials"]
     ELSE IF ~users[user].confirmed
     THEN [status |-> 401, detail |-> "EmailNotConfirmed"]
     ELSE [status |-> 200, detail |-> None]

\* mutant: a successful login stores a snapshot of the record in the cache
login_user_caching(username, password) ==
  LET result == login_result(username, password)
      user == get_user_by_username(username)
  IN
  IF result.status # 200
  THEN /\ last' = Response("login", username, result.status, result.detail, NoBody)
       /\ UNCHANGED <<users, cache, tasks, tokens, now, contacts, db, reqs>>
  ELSE LET access_token == create_access_token(users[user].username, 0)
       IN /\ Cardinality(tokens \cup {access_token}) <= MaxTokens
          /\ tokens' = tokens \cup {access_token}
          /\ cache' = CacheSetex(username, CACHE_SECONDS,
                                 [username |-> users[user].username,
                                  email |-> users[user].email,
                                  password_hash |-> users[user].hashed_password])
          /\ last' = Response("login", username, 200, None,
                              [access_token |-> access_token, token_type |-> "bearer"])
          /\ UNCHANGED <<users, tasks, now, contacts, db, reqs>>

login_user(username, password) ==
  LET result == login_result(username, password)
      user == get_user_by_username(username)
  IN
  IF result.status # 200
  THEN /\ last' = Response("login", username, result.status, result.detail, NoBody)
       /\ UNCHANGED <<users, cache, tasks, tokens, now, contacts, db, reqs>>
  ELSE LET access_token == create_access_token(users[user].username, 0)
       IN /\ Cardinality(tokens \cup {access_token}) <= MaxTokens
          /\ tokens' = tokens \cup {access_token}
          /\ last' = Response("login", username, 200, None,
                              [access_token |-> access_token, token_type |-> "bearer"])
          /\ UNCHANGED <<users, cache, tasks, now, contacts, db, reqs>>

(* --------------------------------------------------------- confirm email *)

\* mutant: lines 129-130 are missing and a confirmed record is confirmed again
confirmed_email_norecheck(token) ==
  LET email == jwt_decode_sub(token)
      user == get_user_by_email(email)
  IN
  IF email = "JWTError"
  THEN /\ last' = Response("confirmed_email", email, 422, "TokenError", NoBody)
       /\ UNCHANGED <<users, cache, tasks, tokens, now, contacts, db, reqs>>
  ELSE IF email = "KeyError"
  THEN /\ last' = Response("confirmed_email", email, 500, "KeyError", NoBody)
       /\ UNCHANGED <<users, cache, tasks, tokens, now, contacts, db, reqs>>
  ELSE IF user = NoInt
  THEN /\ last' = Response("confirmed_email", email, 400, "VerificationError", NoBody)
       /\ UNCHANGED <<users, cache, tasks, tokens, now, contacts, db, reqs>>
  ELSE /\ users' = repo_confirmed_email(email)
       /\ last' = Response("confirmed_email", email, 200, "Confirmed", NoBody)
       /\ UNCHANGED <<cache, tasks, tokens, now, contacts, db, reqs>>

confirmed_email(token) ==
  LET email == jwt_decode_sub(token)
      user == get_user_by_email(email)
  IN
  IF email = "JWTError"
  THEN /\ last' = Response("confirmed_email", email, 422, "TokenError", NoBody)
       /\ UNCHANGED <<users, cache, tasks, tokens, now, contacts, db, reqs>>
  ELSE IF email = "KeyError"
  THEN /\ last' = Response("confirmed_email", email, 500, "KeyError", NoBody)
       /\ UNCHANGED <<users, cache, tasks, tokens, now, contacts, db, reqs>>
  ELSE IF user = NoInt
  THEN /\ last' = Response("confirmed_email", email, 400, "VerificationError", NoBody)
       /\ UNCHANGED <<users, cache, tasks, tokens, now, contacts, db, reqs>>
  ELSE IF users[user].confirmed
  THEN /\ last' = Response("confirmed_email", email, 200, "AlreadyConfirmed", NoBody)
       /\ UNCHANGED <<users, cache, tasks, tokens, now, contacts, db, reqs>>
  ELSE /\ users' = repo_confirmed_email(email)
       /\ last' = Response("confirmed_email", email, 200, "Confirmed", NoBody)
       /\ UNCHANGED <<cache, tasks, tokens, now, contacts, db, reqs>>

(* --------------------------------------------------------- request email *)

\* mutant: lines 145-146 are missing and every record is mailed
request_email_nocheck(email) ==
  LET user == get_user_by_email(email)
  IN
  IF user = NoInt
  THEN /\ last' = Response("request_email", email, 200, "CheckEmail", NoBody)
       /\ UNCHANGED <<users, cache, tasks, tokens, now, contacts, db, reqs>>
  ELSE /\ Len(tasks) < MaxTasks
       /\ tasks' = add_task("send_email", users[user].email, users[user].username)
       /\ last' = Response("request_email", email, 200, "CheckEmail", NoBody)
       /\ UNCHANGED <<users, cache, tokens, now, contacts, db, reqs>>

request_email(email) ==
  LET user == get_user_by_email(email)
  IN
  IF user = NoInt
  THEN \* user.confirmed on None: AttributeError
       /\ last' = Response("request_email", email, 500, "AttributeError", NoBody)
       /\ UNCHANGED <<users, cache, tasks, tokens, now, contacts, db, reqs>>
  ELSE IF users[user].confirmed
  THEN /\ last' = Response("request_email", email, 200, "AlreadyConfirmed", NoBody)
       /\ UNCHANGED <<users, cache, tasks, tokens, now, contacts, db, reqs>>
  ELSE /\ Len(tasks) < MaxTasks
       /\ tasks' = add_task("send_email", users[user].email, users[user].username)
       /\ last' = Response("request_email", email, 200, "CheckEmail", NoBody)
       /\ UNCHANGED <<users, cache, tokens, now, contacts, db, reqs>>

(* ------------------------------------------------------- forgot password *)

\* mutant: the confirmation mail is queued instead of the reset mail
forgot_password_send_email(email) ==
  LET user == get_user_by_email(email)
  IN
  IF user = NoInt
  THEN /\ last' = Response("forgot_password", email, 404, "NotFound", NoBody)
       /\ UNCHANGED <<users, cache, tasks, tokens, now, contacts, db, reqs>>
  ELSE /\ Len(tasks) < MaxTasks
       /\ tasks' = add_task("send_email", users[user].email, users[user].username)
       /\ last' = Response("forgot_password", email, 200, "ResetEmailSent", NoBody)
       /\ UNCHANGED <<users, cache, tokens, now, contacts, db, reqs>>

forgot_password(email) ==
  LET user == get_user_by_email(email)
  IN
  IF user = NoInt
  THEN /\ last' = Response("forgot_password", email, 404, "NotFound", NoBody)
       /\ UNCHANGED <<users, cache, tasks, tokens, now, contacts, db, reqs>>
  ELSE /\ Len(tasks) < MaxTasks
       /\ tasks' = add_task("send_reset_email", users[user].email, users[user].username)
       /\ last' = Response("forgot_password", email, 200, "ResetEmailSent", NoBody)
       /\ UNCHANGED <<users, cache, tokens, now, contacts, db, reqs>>

(* -------------------------------------------------------- reset password *)

reset_password(token, new_password, salt) ==
  LET email == verify_reset_token(token)
      user == get_user_by_email(email)
  IN
  IF email = "KeyError"
  THEN /\ last' = Response("reset_password", email, 500, "KeyError", NoBody)
       /\ UNCHANGED <<users, cache, tasks, tokens, now, contacts, db, reqs>>
  ELSE IF email = None
  THEN /\ last' = Response("reset_password", email, 400, "InvalidToken", NoBody)
       /\ UNCHANGED <<users, cache, tasks, tokens, now, contacts, db, reqs>>
  ELSE IF user = NoInt
  THEN /\ last' = Response("reset_password", email, 404, "NotFound", NoBody)
       /\ UNCHANGED <<users, cache, tasks, tokens, now, contacts, db, reqs>>
  ELSE /\ users' = update_password(email, get_password_hash(new_password, salt))
       /\ last' = Response("reset_password", email, 200, "PasswordReset", NoBody)
       /\ UNCHANGED <<cache, tasks, tokens, now, contacts, db, reqs>>

(* ------------------------------------------------------ session resolver *)

\* mutant: lines 108-111 are missing; every call loads, stores and returns
\* the record
get_current_user_nocache(token) ==
  LET username == jwt_decode_sub(token)
      user == get_user_by_username(username)
  IN
  IF username = "JWTError"
  THEN /\ last' = Response("get_current_user", username, 401, "Unauthorized", NoBody)
       /\ UNCHANGED <<users, cache, tasks, tokens, now, contacts, db, reqs>>
  ELSE IF username = "KeyError"
  THEN /\ last' = Response("get_current_user", username, 500, "KeyError", NoBody)
       /\ UNCHANGED <<users, cache, tasks, tokens, now, contacts, db, reqs>>
  ELSE IF user = NoInt
  THEN /\ last' = Response("get_current_user", username, 401, "Unauthorized", NoBody)
       /\ UNCHANGED <<users, cache, tasks, tokens, now, contacts, db, reqs>>
  ELSE /\ cache' = CacheSetex(username, CACHE_SECONDS,
                              [id |-> users[user].id, username |-> users[user].username,
                               email |-> users[user].email])
       /\ last' = Response("get_current_user", username, 200, "store", users[user])
       /\ UNCHANGED <<users, tasks, tokens, now, contacts, db, reqs>>

get_current_user(token) ==
  LET username == jwt_decode_sub(token)
      user == get_user_by_username(username)
  IN
  IF username = "JWTError"
  THEN /\ last' = Response("get_current_user", username, 401, "Unauthorized", NoBody)
       /\ UNCHANGED <<users, cache, tasks, tokens, now, contacts, db, reqs>>
  ELSE IF username = "KeyError"
  THEN /\ last' = Response("get_current_user", username, 500, "KeyError", NoBody)
       /\ UNCHANGED <<users, cache, tasks, tokens, now, contacts, db, reqs>>
  ELSE IF user = NoInt
  THEN /\ last' = Response("get_current_user", username, 401, "Unauthorized", NoBody)
       /\ UNCHANGED <<users, cache, tasks, tokens, now, contacts, db, reqs>>
  ELSE IF CacheLive(username)
  THEN /\ last' = Response("get_current_user", username, 200, "cache",
                           cache[CacheKey(username)].value)
       /\ UNCHANGED <<users, cache, tasks, tokens, now, contacts, db, reqs>>
  ELSE /\ cache' = CacheSetex(username, CACHE_SECONDS,
                              [id |-> users[user].id, username |-> users[user].username,
                               email |-> users[user].email])
       /\ last' = Response("get_current_user", username, 200, "store", users[user])
       /\ UNCHANGED <<users, tasks, tokens, now, contacts, db, reqs>>

\* the calls on redis_client that can raise when the server cannot be reached
RedisCalls == {"get", "setex"}

\* get_current_user while redis fails: redis_client.get (line 108) or
\* redis_client.setex (line 123) raises, no handler catches it and the request
\* ends as a server error; `at' names the call that raises
get_current_user_cache_error(token, at) ==
  LET username == jwt_decode_sub(token)
      user == get_user_by_username(username)
  IN
  IF username = "JWTError"
  THEN /\ last' = Response("get_current_user", username, 401, "Unauthorized", NoBody)
       /\ UNCHANGED <<users, cache, tasks, tokens, now, contacts, db, reqs>>
  ELSE IF username = "KeyError"
  THEN /\ last' = Response("get_current_user", username, 500, "KeyError", NoBody)
       /\ UNCHANGED <<users, cache, tasks, tokens, now, contacts, db, reqs>>
  ELSE IF user = NoInt
  THEN /\ last' = Response("get_current_user", username, 401, "Unauthorized", NoBody)
       /\ UNCHANGED <<users, cache, tasks, tokens, now, contacts, db, reqs>>
  ELSE IF at = "setex" /\ CacheLive(username)
  THEN /\ last' = Response("get_current_user", username, 200, "cache",
                           cache[CacheKey(username)].value)
       /\ UNCHANGED <<users, cache, tasks, tokens, now, contacts, db, reqs>>
  ELSE /\ last' = Response("get_current_user", username, 500, "CacheError", NoBody)
       /\ UNCHANGED <<users, cache, tasks, tokens, now, contacts, db, reqs>>

(* ------------------------------------------------------ background tasks *)

\* send_email / send_reset_email run from the queue: the token is made when the
\* task runs; a ConnectionErrors is printed and the mail is lost
run_task(delivered) ==
  LET t == Head(tasks)
      token == IF t.task = "send_email" THEN create_email_token(t.email)
               ELSE create_reset_token(t.email)
  IN /\ tasks # <<>>
     /\ tasks' = Tail(tasks)
     /\ IF delivered
        THEN /\ Cardinality(tokens \cup {token}) <= MaxTokens
             /\ tokens' = tokens \cup {token}
        ELSE tokens' = tokens
     /\ last' = Response(t.task, t.email, 0, IF delivered THEN "sent" ELSE "ConnectionErrors",
                          NoBody)
     /\ UNCHANGED <<users, cache, now, contacts, db, reqs>>

(* ----------------------------------------------------------- environment *)

\* the clock moves to a later instant; redis drops the keys that expired
Tick(t) ==
  /\ t > now
  /\ now' = t
  /\ cache' = [k \in {k \in DOMAIN cache : t < cache[k].exp} |-> cache[k]]
  /\ last' = Response("tick", None, 0, None, NoBody)
  /\ UNCHANGED <<users, tasks, tokens, contacts, db, reqs>>

\* a caller of create_access_token keeps the token it got
issue_access_token(sub, expires_delta) ==
  LET access_token == create_access_token(sub, expires_delta)
  IN /\ Cardinality(tokens \cup {access_token}) <= MaxTokens
     /\ tokens' = tokens \cup {access_token}
     /\ last' = Response("create_access_token", sub, 0, None,
                         [access_token |-> access_token])
     /\ UNCHANGED <<users, cache, tasks, now, contacts, db, reqs>>

\* a client forgets a token it held
Discard(token) ==
  /\ tokens' = tokens \ {token}
  /\ last' = Response("discard", None, 0, None, NoBody)
  /\ UNCHANGED <<users, cache, tasks, now, contacts, db, reqs>>

Presented == tokens \cup ForgedTokens

\* the routes every specification has, the mail queue and the client
Handlers ==
  \/ \E u \in Usernames, e \in Emails, p \in Passwords, s \in DrawnSalts :
       register_user(u, e, p, s)
  \/ \E u \in Usernames, p \in Passwords : login_user(u, p)
  \/ \E t \in Presented : confirmed_email(t)
  \/ \E d \in BOOLEAN : run_task(d)
  \/ \E t \in tokens : Discard(t)

\* the routes that mail and use a reset token
ResetHandlers ==
  \/ \E e \in Emails : forgot_password(e)
  \/ \E t \in Presented, p \in Passwords, s \in DrawnSalts : reset_password(t, p, s)

\* the /auth routes at one instant of the clock
Next ==
  \/ Handlers
  \/ ResetHandlers
  \/ \E e \in Emails : request_email(e)

Spec == Init /\ [][Next]_vars

\* registration, login and the session resolver, with the clock around the
\* lifetime of a session token and of a cache entry
NextSession ==
  \/ Handlers
  \/ \E t \in Presented : get_current_user(t)
  \/ \E t \in SessionInstants : Tick(t)

SpecSession == Init /\ [][NextSession]_vars

\* the session resolver next to the password reset, at one instant of the clock
NextCache ==
  \/ Handlers
  \/ ResetHandlers
  \/ \E t \in Presented : get_current_user(t)

SpecCache == Init /\ [][NextCache]_vars

\* every /auth route and the session resolver at one instant of the clock
NextAll ==
  \/ Next
  \/ \E t \in Presented : get_current_user(t)

SpecAll == Init /\ [][NextAll]_vars

\* registration, login and the session resolver with a redis that can fail at
\* either of the resolver's two calls
NextCacheFault ==
  \/ Handlers
  \/ \E t \in Presented : get_current_user(t)
  \/ \E t \in Presented, at \in RedisCalls : get_current_user_cache_error(t, at)

SpecCacheFault == Init /\ [][NextCacheFault]_vars

\* create_access_token with each expires_delta and the session resolver, with
\* the clock around the end of each lifetime
NextToken ==
  \/ \E u \in Usernames, s \in DrawnSalts : register_user(u, "a@x.com", "pw1", s)
  \/ \E u \in Usernames, d \in Deltas : issue_access_token(u, d)
  \/ \E t \in Presented : get_current_user(t)
  \/ \E t \in tokens : Discard(t)
  \/ \E t \in TokenInstants : Tick(t)

SpecToken == Init /\ [][NextToken]_vars

\* the /auth routes that issue and take tokens, for one email address, with
\* the clock around the end of the lifetime of a reset token and of a
\* confirmation token
NextExpiry ==
  \/ \E u \in Usernames, p \in Passwords, s \in DrawnSalts :
       register_user(u, "a@x.com", p, s)
  \/ \E u \in Usernames, p \in Passwords : login_user(u, p)
  \/ \E t \in Presented : confirmed_email(t)
  \/ \E d \in BOOLEAN : run_task(d)
  \/ \E t \in tokens : Discard(t)
  \/ ResetHandlers
  \/ \E t \in ExpiryInstants : Tick(t)

SpecExpiry == Init /\ [][NextExpiry]_vars

(* ---------------------------------------------------------------- claims *)

\* what the claims say about a request, read off the store
EmailPresent(email) == \E i \in UserIds : users[i].email = email
UsernamePresent(username) == \E i \in UserIds : users[i].username = username
PasswordMatches(username, password) ==
  \E i \in UserIds : /\ users[i].username = username
                     /\ verify_password(password, users[i].hashed_password)
ConfirmedRecord(username) ==
  \E i \in UserIds : users[i].username = username /\ users[i].confirmed
ResetInputs == Presented \X Passwords \X DrawnSalts
RegisterInputs == Usernames \X Emails \X Passwords \X DrawnSalts

\* C1: a login with the username and password of a confirmed record answers 200
\* with {access_token, token_type: "bearer"}, and the resolver, given that
\* token at any time before its exp, answers the user of the same username.
C1_LoginTokenResolves ==
  [][/\ \A u \in Usernames, p \in Passwords :
          (last'.op = "login" /\ login_user(u, p) /\ PasswordMatches(u, p) /\ ConfirmedRecord(u)) =>
            /\ last'.status = 200
            /\ DOMAIN last'.body = {"access_token", "token_type"}
            /\ last'.body.token_type = "bearer"
            /\ last'.body.access_token \in tokens'
            /\ last'.body.access_token.kind = "session"
            /\ last'.body.access_token.sub = u
     /\ \A t \in tokens :
          (last'.op = "get_current_user" /\ t.kind = "session" /\ now < t.exp /\ get_current_user(t)) =>
            /\ last'.status = 200
            /\ last'.body.username = t.sub]_vars

C1_Witness ==
  /\ last.op = "get_current_user"
  /\ last.status = 200
  /\ \E t \in tokens : t.kind = "session" /\ t.sub = last.who /\ now < t.exp

\* C2: a login whose username has no record, or whose password does not verify
\* against the record's hash, answers 401 InvalidCredentials with the same
\* response in both cases, issues no token and changes no state.
C2_InvalidCredentials ==
  [][\A u \in Usernames, p \in Passwords :
       (last'.op = "login" /\ login_user(u, p) /\ ~PasswordMatches(u, p)) =>
         /\ last'.status = 401
         /\ last'.detail = "InvalidCredentials"
         /\ last'.body = NoBody
         /\ UNCHANGED <<users, cache, tasks, tokens, now, contacts, db, reqs>>]_vars

C2_Witness ==
  /\ last.op = "login"
  /\ last.detail = "InvalidCredentials"
  /\ UsernamePresent(last.who)
  /\ ConfirmedRecord(last.who)

\* C3: a login with the right password for a record that is not confirmed
\* answers 401 EmailNotConfirmed and issues no session token.
C3_EmailNotConfirmed ==
  [][\A u \in Usernames, p \in Passwords :
       (last'.op = "login" /\ login_user(u, p) /\ PasswordMatches(u, p) /\ ~ConfirmedRecord(u)) =>
         /\ last'.status = 401
         /\ last'.detail = "EmailNotConfirmed"
         /\ tokens' = tokens]_vars

C3_Witness ==
  /\ last.op = "login"
  /\ last.detail = "EmailNotConfirmed"
  /\ PasswordMatches(last.who, "pw1") \/ PasswordMatches(last.who, "pw2")
  /\ ~ConfirmedRecord(last.who)

\* C4: reset_password replaces a password only when its token was issued by
\* create_reset_token for that email at most 180 seconds ago; a confirmation
\* token or a session token with that subject is never accepted.
C4_SinglePurposeTokens ==
  [][last'.op = "reset_password" => \A in \in ResetInputs :
       (last'.op = "reset_password" /\ last'.status = 200 /\ reset_password(in[1], in[2], in[3])) =>
         /\ in[1].kind = "reset"
         /\ now - (in[1].exp - RESET_SECONDS) <= RESET_SECONDS]_vars

\* C5: once reset_password has succeeded with a reset token for a confirmed
\* user, a login with the new password answers 200 and a login with any other
\* password answers 401 InvalidCredentials, until the password is reset again:
\* the reset step establishes it, only a reset or a registration changes what a
\* login answers for a confirmed user, and login_user answers exactly that.
C5_ResetChangesLogin ==
  [][/\ last'.op = "reset_password" => \A in \in ResetInputs :
          (/\ last'.op = "reset_password"
           /\ last'.status = 200
           /\ in[1].kind = "reset"
           /\ last'.who = in[1].sub
           /\ reset_password(in[1], in[2], in[3])) =>
            LET name == users[get_user_by_email(in[1].sub)].username
            IN ConfirmedRecord(name) =>
                 /\ (login_result(name, in[2]))'.status = 200
                 /\ \A q \in Passwords \ {in[2]} :
                      (login_result(name, q))' =
                        [status |-> 401, detail |-> "InvalidCredentials"]
     /\ users' # users => \A u \in Usernames, q \in Passwords :
          (users' # users /\ ConfirmedRecord(u)
             /\ (login_result(u, q))' # login_result(u, q)) =>
            last'.op = "reset_password" /\ last'.status = 200
     /\ last'.op = "login" => \A u \in Usernames, q \in Passwords :
          (last'.who = u /\ login_user(u, q)) =>
            /\ last'.status = login_result(u, q).status
            /\ last'.detail = login_result(u, q).detail]_vars

C5_Witness ==
  /\ last.op = "reset_password"
  /\ last.status = 200
  /\ \E t \in tokens : t.kind = "reset" /\ t.sub = last.who
  /\ \E i \in UserIds : users[i].email = last.who /\ users[i].confirmed

\* the reset steps C6 is about: the password of a confirmed user whose cache
\* entry is live is replaced by a different one
StaleCacheReset(in, old) ==
  /\ last'.op = "reset_password"
  /\ last'.status = 200
  /\ old # in[2]
  /\ last'.who = in[1].sub
  /\ reset_password(in[1], in[2], in[3])
  /\ LET i == get_user_by_email(in[1].sub)
     IN /\ users[i].confirmed
        /\ CacheLive(users[i].username)
        /\ verify_password(old, users[i].hashed_password)

\* C6 as stated: while the user's cache entry is live, a login with the old
\* password still answers 200 after the stored hash was replaced.
C6_StaleCacheAuthenticates ==
  [][last'.op = "reset_password" => \A in \in ResetInputs, old \in Passwords :
       StaleCacheReset(in, old) =>
         (login_result(users[get_user_by_email(in[1].sub)].username, old))'.status
           = 200]_vars

\* C6 amended: login never reads the cache, so a login with the old password
\* answers 401 InvalidCredentials as soon as the stored hash is replaced, also
\* while the user's cache entry is live.
C6_OldPasswordFailsAtOnce ==
  [][last'.op = "reset_password" => \A in \in ResetInputs, old \in Passwords :
       StaleCacheReset(in, old) =>
         (login_result(users[get_user_by_email(in[1].sub)].username, old))'
           = [status |-> 401, detail |-> "InvalidCredentials"]]_vars

C6_Witness ==
  /\ last.op = "reset_password"
  /\ last.status = 200
  /\ \E i \in UserIds : /\ users[i].email = last.who
                        /\ users[i].confirmed
                        /\ CacheLive(users[i].username)

C8_EmailConflict ==
  [][last'.op = "register" => \A in \in RegisterInputs :
       (last'.who = in[2] /\ EmailPresent(in[2])
          /\ register_user(in[1], in[2], in[3], in[4])) =>
         /\ last'.status = 409
         /\ last'.detail = "EmailConflict"
         /\ users' = users
         /\ Cardinality({i \in 1..Len(users') : users'[i].email = in[2]}) = 1]_vars

C8_Witness ==
  /\ last.op = "register"
  /\ last.detail = "EmailConflict"
  /\ Cardinality({i \in UserIds : users[i].email = last.who}) = 1

\* C9: a register call whose username has a record and whose email has none
\* answers 409 UsernameConflict and creates no record; when both have a record
\* the answer is the email conflict.
C9_UsernameConflict ==
  [][last'.op = "register" => \A in \in RegisterInputs :
       (/\ last'.who = in[2]
        /\ UsernamePresent(in[1])
        /\ register_user(in[1], in[2], in[3], in[4])) =>
         IF ~EmailPresent(in[2])
         THEN /\ last'.status = 409
              /\ last'.detail = "UsernameConflict"
              /\ users' = users
         ELSE /\ last'.status = 409
              /\ last'.detail = "EmailConflict"
              /\ users' = users]_vars

C9_Witness ==
  /\ last.op = "register"
  /\ last.detail = "UsernameConflict"
  /\ ~EmailPresent(last.who)
  /\ users # <<>>

\* C10: a register call that passes both checks appends exactly one record,
\* not confirmed, whose hashed_password is the hash of the password and not
\* the password, queues one send_email task for the new email, and answers 201
\* with a view that has no hashed_password.
C10_RegisterCreates ==
  [][last'.op = "register" => \A in \in RegisterInputs :
       (/\ last'.who = in[2]
        /\ ~UsernamePresent(in[1])
        /\ ~EmailPresent(in[2])
        /\ register_user(in[1], in[2], in[3], in[4])) =>
         /\ Len(users') = Len(users) + 1
         /\ SubSeq(users', 1, Len(users)) = users
         /\ users'[Len(users')].username = in[1]
         /\ users'[Len(users')].email = in[2]
         /\ users'[Len(users')].confirmed = FALSE
         /\ users'[Len(users')].hashed_password = get_password_hash(in[3], in[4])
         /\ users'[Len(users')].hashed_password # in[3]
         /\ tasks' = Append(tasks, [task |-> "send_email", email |-> in[2],
                                    username |-> in[1]])
         /\ last'.status = 201
         /\ "hashed_password" \notin DOMAIN last'.body
         /\ "password" \notin DOMAIN last'.body
         /\ last'.body.username = in[1]
         /\ last'.body.email = in[2]]_vars

C10_Witness ==
  /\ last.op = "register"
  /\ last.status = 201
  /\ Len(users) = 2
  /\ ~users[2].confirmed
  /\ tasks # <<>>
  /\ tasks[Len(tasks)].task = "send_email"
  /\ tasks[Len(tasks)].email = users[2].email

\* C11: confirmed_email with an unexpired token of create_email_token whose
\* email belongs to an unconfirmed record answers 200 and sets the confirmed
\* flag of that record; every other field of it, every other record and the
\* cache stay as they were.
C11_ConfirmSetsFlag ==
  [][\A t \in tokens :
       (/\ last'.op = "confirmed_email"
        /\ t.kind = "email"
        /\ t.exp >= now
        /\ confirmed_email(t)
        /\ get_user_by_email(t.sub) # NoInt
        /\ ~users[get_user_by_email(t.sub)].confirmed) =>
         /\ last'.status = 200
         /\ users' = [users EXCEPT ![get_user_by_email(t.sub)].confirmed = TRUE]
         /\ \A i \in UserIds : users[i].email # t.sub => users'[i] = users[i]
         /\ cache' = cache]_vars

C11_Witness ==
  /\ last.op = "confirmed_email"
  /\ last.detail = "Confirmed"
  /\ Len(users) = 2
  /\ \E i \in UserIds : users[i].email = last.who /\ users[i].confirmed
  /\ \E i \in UserIds : users[i].email # last.who /\ ~users[i].confirmed
  /\ cache # <<>>

\* C12: confirmed_email with a token that decodes to the email of a record
\* that is already confirmed answers 200 with the already-confirmed message
\* and returns before the write of line 131; the store and everything else are
\* unchanged, so the same request gets the same answer however often it is made.
C12_ConfirmIdempotent ==
  [][\A t \in Presented :
       (/\ last'.op = "confirmed_email"
        /\ confirmed_email(t)
        /\ get_user_by_email(jwt_decode_sub(t)) # NoInt
        /\ users[get_user_by_email(jwt_decode_sub(t))].confirmed) =>
         /\ last'.status = 200
         /\ last'.detail = "AlreadyConfirmed"
         /\ UNCHANGED <<users, cache, tasks, tokens, now, contacts, db, reqs>>
         /\ (last.op = "confirmed_email" /\ last.detail = "AlreadyConfirmed"
               /\ last.who = jwt_decode_sub(t)) => last' = last]_vars

C12_Witness ==
  /\ last.op = "confirmed_email"
  /\ last.detail = "AlreadyConfirmed"
  /\ \E i \in UserIds : users[i].email = last.who /\ users[i].confirmed
  /\ \E t \in tokens : t.kind = "email" /\ t.sub = last.who

\* the tokens jwt.decode refuses: not signed with the secret (a malformed
\* string fails the same way), or exp behind the clock
Refused(t) == t.sig # "ok" \/ t.exp < now

\* C13 as stated: confirmed_email with a refused token, or with a token whose
\* email has no record, answers 400 VerificationError and changes no record.
C13_BadTokenIs400 ==
  [][\A t \in Presented :
       (/\ last'.op = "confirmed_email"
        /\ confirmed_email(t)
        /\ (Refused(t) \/ ~EmailPresent(t.sub))) =>
         /\ last'.status = 400
         /\ last'.detail = "VerificationError"
         /\ users' = users]_vars

\* C13 amended: a refused token is answered by get_email_from_token with 422,
\* a decoded email without a record by the handler with 400 VerificationError;
\* neither changes a record.
C13_BadToken422NoRecord400 ==
  [][\A t \in Presented :
       /\ (last'.op = "confirmed_email" /\ confirmed_email(t) /\ Refused(t)) =>
            /\ last'.status = 422
            /\ last'.detail = "TokenError"
            /\ users' = users
       /\ (/\ last'.op = "confirmed_email"
           /\ confirmed_email(t)
           /\ ~Refused(t)
           /\ ~EmailPresent(t.sub)) =>
            /\ last'.status = 400
            /\ last'.detail = "VerificationError"
            /\ users' = users]_vars

C13_Witness ==
  /\ last.op = "confirmed_email"
  /\ last.status = 422
  /\ \E t \in tokens : t.kind = "email" /\ t.exp < now /\ EmailPresent(t.sub)
  /\ \E i \in UserIds : ~users[i].confirmed

\* C14: request_email answers 200 for every email, with or without a record,
\* confirmed or not, and any two of its answers carry the same message.
C14_RequestEmailUniform ==
  [][\A e \in Emails :
       (last'.op = "request_email" /\ request_email(e)) =>
         /\ last'.status = 200
         /\ last.op = "request_email" =>
              (last'.status = last.status /\ last'.detail = last.detail)]_vars

\* C15: request_email for the email of an unconfirmed record queues exactly
\* one send_email task for that address; for the email of a confirmed record
\* it queues none and answers 200 with the already-confirmed message; in both
\* cases every record stays as it was.
C15_RequestEmailSchedules ==
  [][\A e \in Emails :
       /\ (/\ last'.op = "request_email"
           /\ request_email(e)
           /\ EmailPresent(e)
           /\ ~users[get_user_by_email(e)].confirmed) =>
            /\ Len(tasks') = Len(tasks) + 1
            /\ SubSeq(tasks', 1, Len(tasks)) = tasks
            /\ tasks'[Len(tasks')].task = "send_email"
            /\ tasks'[Len(tasks')].email = e
            /\ last'.status = 200
            /\ users' = users
       /\ (/\ last'.op = "request_email"
           /\ request_email(e)
           /\ EmailPresent(e)
           /\ users[get_user_by_email(e)].confirmed) =>
            /\ tasks' = tasks
            /\ last'.status = 200
            /\ last'.detail = "AlreadyConfirmed"
            /\ users' = users]_vars

C15_Witness ==
  /\ last.op = "request_email"
  /\ last.status = 200
  /\ tasks # <<>>
  /\ tasks[Len(tasks)] = [task |-> "send_email", email |-> last.who,
                          username |-> users[get_user_by_email(last.who)].username]
  /\ ~users[get_user_by_email(last.who)].confirmed
  /\ \E i \in UserIds : users[i].confirmed

\* C16: forgot_password for an email without a record answers 404 NotFound
\* and queues nothing; for the email of a record, confirmed or not, it answers
\* 200 and queues exactly one send_reset_email task for that email, whose mail
\* carries a token of create_reset_token for that email; no record changes.
C16_ForgotPassword ==
  [][/\ \A e \in Emails :
          /\ (last'.op = "forgot_password" /\ forgot_password(e) /\ ~EmailPresent(e)) =>
               /\ last'.status = 404
               /\ last'.detail = "NotFound"
               /\ tasks' = tasks
               /\ users' = users
          /\ (last'.op = "forgot_password" /\ forgot_password(e) /\ EmailPresent(e)) =>
               /\ last'.status = 200
               /\ Len(tasks') = Len(tasks) + 1
               /\ SubSeq(tasks', 1, Len(tasks)) = tasks
               /\ tasks'[Len(tasks')].task = "send_reset_email"
               /\ tasks'[Len(tasks')].email = e
               /\ users' = users
     /\ (last'.op = "send_reset_email" /\ last'.detail = "sent") =>
          /\ tokens' = tokens \cup {Jwt(Head(tasks).email, now + RESET_SECONDS, NoInt, "reset")}
          /\ users' = users]_vars

C16_Witness ==
  /\ last.op = "forgot_password"
  /\ last.status = 200
  /\ tasks # <<>>
  /\ tasks[Len(tasks)].task = "send_reset_email"
  /\ tasks[Len(tasks)].email = last.who
  /\ ~users[get_user_by_email(last.who)].confirmed

\* C17: reset_password with a token verify_reset_token refuses answers 400
\* InvalidToken, with an accepted token whose email has no record 404 NotFound,
\* both without changing a record; otherwise it replaces the hashed_password of
\* the one record with that email by the hash of new_password, leaves every
\* other field and record alone, and does not touch the cache.
C17_ResetPassword ==
  [][last'.op = "reset_password" => \A in \in ResetInputs :
       (last'.who = verify_reset_token(in[1]) /\ reset_password(in[1], in[2], in[3])) =>
         IF Refused(in[1])
         THEN /\ last'.status = 400
              /\ last'.detail = "InvalidToken"
              /\ users' = users
         ELSE IF ~EmailPresent(in[1].sub)
         THEN /\ last'.status = 404
              /\ last'.detail = "NotFound"
              /\ users' = users
         ELSE /\ last'.status = 200
              /\ users' = [users EXCEPT ![get_user_by_email(in[1].sub)].hashed_password =
                                          get_password_hash(in[2], in[3])]
              /\ \A i \in UserIds : users[i].email # in[1].sub => users'[i] = users[i]
              /\ cache' = cache]_vars

C17_Witness ==
  /\ last.op = "reset_password"
  /\ last.status = 200
  /\ Len(users) = 2
  /\ cache # <<>>
  /\ \E i, j \in UserIds : /\ users[i].email = last.who
                           /\ users[j].email # last.who
                           /\ users[i].hashed_password # users[j].hashed_password

\* C18 as stated: a login that finds no cache entry and succeeds against the
\* store writes the entry user:<username> holding {username, email,
\* password_hash}; a login that fails writes no entry.
C18_LoginPopulatesCache ==
  [][\A u \in Usernames, p \in Passwords :
       /\ (last'.op = "login" /\ login_user(u, p) /\ ~CacheLive(u)
             /\ login_result(u, p).status = 200) =>
            /\ CacheKey(u) \in DOMAIN cache'
            /\ cache'[CacheKey(u)].value =
                 [username |-> u,
                  email |-> users[get_user_by_username(u)].email,
                  password_hash |-> users[get_user_by_username(u)].hashed_password]
       /\ (last'.op = "login" /\ login_user(u, p) /\ login_result(u, p).status # 200) =>
            cache' = cache]_vars

\* C18 amended: no login writes the cache, whether it succeeds or fails; the
\* entry user:<username> is written only by the session resolver and holds
\* {id, username, email}.
C18_LoginNeverWritesCache ==
  [][/\ \A u \in Usernames, p \in Passwords :
          (last'.op = "login" /\ login_user(u, p)) => cache' = cache
     /\ cache' # cache =>
          /\ last'.op = "get_current_user"
          /\ CacheKey(last'.who) \in DOMAIN cache'
          /\ DOMAIN cache'[CacheKey(last'.who)].value = {"id", "username", "email"}
          /\ \A k \in DOMAIN cache : k # CacheKey(last'.who) =>
               (k \in DOMAIN cache' /\ cache'[k] = cache[k])]_vars

C18_Witness ==
  /\ last.op = "login"
  /\ last.status = 200
  /\ ~CacheLive(last.who)
  /\ \E k \in DOMAIN cache : k # CacheKey(last.who)

\* the lifetime create_access_token gives for an expires_delta
SessionTtl(d) == IF d >= 1 THEN d ELSE JWT_EXPIRATION_SECONDS

\* C19: a session token made at time T by create_access_token with a lifetime
\* of t seconds (the expires_delta when it is at least 1, else
\* JWT_EXPIRATION_SECONDS) carries exp = T + t; the resolver answers the user
\* for it at every time before T + t and 401 at every time after T + t.
C19_SessionTokenExpires ==
  [][/\ \A u \in Usernames, d \in Deltas :
          (last'.op = "create_access_token" /\ issue_access_token(u, d)) =>
            /\ last'.body.access_token.sub = u
            /\ last'.body.access_token.exp = now + SessionTtl(d)
            /\ last'.body.access_token \in tokens'
     /\ \A t \in tokens :
          (/\ last'.op = "get_current_user"
           /\ get_current_user(t)
           /\ t.kind = "session"
           /\ UsernamePresent(t.sub)) =>
            /\ now < t.exp => (last'.status = 200 /\ last'.body.username = t.sub)
            /\ now > t.exp => (last'.status = 401 /\ last'.detail = "Unauthorized")]_vars

C19_Witness ==
  /\ last.op = "get_current_user"
  /\ last.status = 401
  /\ \E t \in tokens : /\ t.kind = "session"
                       /\ UsernamePresent(t.sub)
                       /\ t.exp < JWT_EXPIRATION_SECONDS
                       /\ now > t.exp

\* a mail task that was delivered puts a token of the right kind, made at the
\* time the task runs with the lifetime of its kind, into the hands of a client
MailedTokenLifetime ==
  /\ (last'.op = "send_email" /\ last'.detail = "sent") =>
       tokens' = tokens \cup {Jwt(last'.who, now + EMAIL_SECONDS, now, "email")}
  /\ (last'.op = "send_reset_email" /\ last'.detail = "sent") =>
       tokens' = tokens \cup {Jwt(last'.who, now + RESET_SECONDS, NoInt, "reset")}

\* C20 as stated: a confirmation token made at T is accepted by confirmed_email
\* exactly while now < T + 7 days, and a reset token made at T by reset_password
\* exactly while now < T + 180 seconds.
C20_AcceptedStrictlyBefore ==
  [][/\ MailedTokenLifetime
     /\ \A t \in tokens :
          (last'.op = "confirmed_email" /\ t.kind = "email" /\ confirmed_email(t)) =>
            (last'.status = 200 <=> now < t.exp)
     /\ \A in \in ResetInputs :
          (/\ last'.op = "reset_password"
           /\ in[1].kind = "reset"
           /\ reset_password(in[1], in[2], in[3])) =>
            (last'.status = 200 <=> now < in[1].exp)]_vars

\* C20 amended: a confirmation token made at T is accepted by confirmed_email
\* exactly while now <= T + 7 days and a reset token made at T by
\* reset_password exactly while now <= T + 180 seconds, the instant of exp
\* included; from the next second on the first is answered 422 and the second
\* 400.
C20_AcceptedUntilExp ==
  [][/\ MailedTokenLifetime
     /\ \A t \in tokens :
          (last'.op = "confirmed_email" /\ t.kind = "email" /\ confirmed_email(t)) =>
            /\ last'.status = 200 <=> now <= t.iat + EMAIL_SECONDS
            /\ last'.status # 200 => last'.status = 422
     /\ \A in \in ResetInputs :
          (/\ last'.op = "reset_password"
           /\ in[1].kind = "reset"
           /\ reset_password(in[1], in[2], in[3])) =>
            /\ last'.status = 200 <=> now <= in[1].exp
            /\ last'.status # 200 => last'.status = 400]_vars

C20_Witness ==
  /\ last.op = "confirmed_email"
  /\ last.status = 200
  /\ \E t \in tokens : t.kind = "email" /\ t.sub = last.who /\ now = t.iat + EMAIL_SECONDS

\* C21: for an accepted session token of an existing user the resolver, when
\* the key user:<username> is live, returns the value stored under it and
\* writes nothing; when it is not, it stores {id, username, email} under the
\* key for 3600 seconds, answers the record read from the store and leaves
\* every other key alone.
C21_ResolverCachePath ==
  [][last'.op = "get_current_user" => \A t \in tokens :
       (/\ t.kind = "session"
        /\ ~Refused(t)
        /\ UsernamePresent(t.sub)
        /\ get_current_user(t)) =>
         LET u == users[get_user_by_username(t.sub)]
         IN IF CacheLive(t.sub)
            THEN /\ last'.status = 200
                 /\ last'.body = cache[CacheKey(t.sub)].value
                 /\ last'.body # u
                 /\ UNCHANGED <<users, cache, tasks, tokens, now, contacts, db, reqs>>
            ELSE /\ last'.status = 200
                 /\ last'.body = u
                 /\ cache' = [k \in DOMAIN cache \cup {CacheKey(t.sub)} |->
                                IF k = CacheKey(t.sub)
                                THEN [value |-> [id |-> u.id, username |-> u.username,
                                                 email |-> u.email],
                                      exp |-> now + 3600]
                                ELSE cache[k]]
                 /\ users' = users]_vars

C21_Witness ==
  /\ last.op = "get_current_user"
  /\ last.detail = "cache"
  /\ last.body = cache[CacheKey(last.who)].value
  /\ now > 0
  /\ \E t \in tokens : t.kind = "session" /\ t.sub = last.who /\ ~Refused(t)

\* C22: when redis raises at the get or at the setex of a session resolution,
\* the error counts as a miss: a request with an accepted token of an existing
\* user is answered 200 with the record read from the store, as it would be
\* with an empty cache.
C22_CacheErrorIsMiss ==
  [][last'.op = "get_current_user" =>
       \A t \in tokens, at \in RedisCalls :
         (/\ t.kind = "session"
          /\ ~Refused(t)
          /\ UsernamePresent(t.sub)
          /\ ~CacheLive(t.sub)
          /\ get_current_user_cache_error(t, at)) =>
           /\ last'.status = 200
           /\ last'.body = users[get_user_by_username(t.sub)]]_vars

\* C23: every entry is written to expire 3600 seconds after the write, no
\* later step moves the expiry of an entry (a read leaves the cache as it is),
\* and a value is served from the cache only before its expiry, that is less
\* than 3600 seconds after it was written.
C23_CacheTtlBound ==
  [][/\ \A k \in DOMAIN cache' :
          \/ k \in DOMAIN cache /\ cache'[k] = cache[k]
          \/ /\ last'.op = "get_current_user"
             /\ last'.detail = "store"
             /\ k = CacheKey(last'.who)
             /\ cache'[k].exp = now + 3600
     /\ (last'.op = "get_current_user" /\ last'.detail = "cache") =>
          /\ cache' = cache
          /\ last'.body = cache[CacheKey(last'.who)].value
          /\ now - (cache[CacheKey(last'.who)].exp - 3600) < 3600]_vars

C23_Witness ==
  /\ last.op = "get_current_user"
  /\ last.detail = "cache"
  /\ now = JWT_EXPIRATION_SECONDS + 1
  /\ cache[CacheKey(last.who)].exp = JWT_EXPIRATION_SECONDS + 3600

\* the success answers of the three handlers that mail
MailingAnswer(r) ==
  \/ r.op = "register" /\ r.status = 201
  \/ r.op = "request_email" /\ r.detail = "CheckEmail"
  \/ r.op = "forgot_password" /\ r.status = 200

\* C24: register_user, request_email and forgot_password answer with success
\* while the mail is only queued, no token having been made or sent; when the
\* task runs later, the store and the cache stay as they are whether the
\* delivery succeeds or raises ConnectionErrors, and only a delivered mail
\* hands out a token.
C24_FireAndForget ==
  [][/\ MailingAnswer(last') =>
          /\ Len(tasks') = Len(tasks) + 1
          /\ SubSeq(tasks', 1, Len(tasks)) = tasks
          /\ tasks'[Len(tasks')].email = last'.who
          /\ tokens' = tokens
     /\ last'.op \in {"send_email", "send_reset_email"} =>
          \A d \in BOOLEAN :
            run_task(d) =>
              /\ last'.detail = (IF d THEN "sent" ELSE "ConnectionErrors")
              /\ users' = users
              /\ cache' = cache
              /\ tasks' = Tail(tasks)
              /\ ~d => tokens' = tokens]_vars

C24_Witness ==
  /\ last.op = "send_email"
  /\ last.detail = "ConnectionErrors"
  /\ tokens = {}
  /\ Len(users) = 1
  /\ ~users[1].confirmed

\* C25: in every step of register, login, confirm, request-email,
\* forgot-password, reset-password and resolve, every record stays in the store
\* with its id, username and email, a confirmed flag that is true stays true,
\* the flag changes only in a confirmed_email step and the hashed_password only
\* in a reset_password step.
C25_RecordFrame ==
  [][users' # users =>
       /\ Len(users') >= Len(users)
       /\ \A i \in UserIds :
            /\ users'[i].id = users[i].id
            /\ users'[i].username = users[i].username
            /\ users'[i].email = users[i].email
            /\ users[i].confirmed => users'[i].confirmed
            /\ users'[i].confirmed # users[i].confirmed => last'.op = "confirmed_email"
            /\ users'[i].hashed_password # users[i].hashed_password =>
                 last'.op = "reset_password"]_vars

C25_Witness ==
  /\ last.op = "reset_password"
  /\ last.status = 200
  /\ Len(users) = 2
  /\ cache # <<>>
  /\ \E i \in UserIds : users[i].email = last.who /\ users[i].confirmed

\* the passwords that verify against a stored hash
Verifying(h) == {p \in Passwords : verify_password(p, h)}

C29_ConfirmOnlyByEmailToken ==
  [][(last'.op = "confirmed_email" /\ last'.detail = "Confirmed") =>
       /\ \E t \in tokens : /\ t.kind = "email"
                            /\ t.sub = last'.who
                            /\ confirmed_email(t)
       /\ \A t \in tokens : t.kind = "session" => ~confirmed_email(t)]_vars

\* C30: a session token with sub U is issued only by a login step taken while
\* the record of username U is confirmed and the presented password verifies,
\* and after every step each cache entry user:<U> belongs to a confirmed
\* record: no token and no cache entry for an account never confirmed.
C30_SessionAndCacheOnlyConfirmed ==
  [][/\ \A t \in tokens' \ tokens : t.kind = "session" =>
          /\ ConfirmedRecord(t.sub)
          /\ \E p \in Passwords : /\ PasswordMatches(t.sub, p)
                                  /\ login_user(t.sub, p)
     /\ cache' # cache => \A u \in Usernames :
          CacheKey(u) \in DOMAIN cache' => ConfirmedRecord(u)]_vars

(* -------------------------------------------------------------- contacts *)

\* contact ids the table's sequence gives out
MaxContacts == 2

\* ids of the users that own contacts, and the ids a caller asks for: those
\* the sequence can give out and one it never does
Owners == {1, 2}
ContactIds == 1..(MaxContacts + 1)

FirstNames == {"Ann", "Bob"}
Phones == {"111", "222"}
ContactFields == {"first_name", "phone"}
FieldValues(f) == IF f = "first_name" THEN FirstNames ELSE Phones

\* a ContactSchema body as dict(exclude_unset=True) gives it: the fields that
\* were supplied, each with its value
Bodies ==
  UNION {{b \in [F -> FirstNames \cup Phones] : \A f \in F : b[f] \in FieldValues(f)} :
           F \in SUBSET ContactFields}
FullBodies == {b \in Bodies : DOMAIN b = ContactFields}

\* scalar_one_or_none without a row
NoContact == [id |-> 0]

\* one call on the AsyncSession
Call(name, contact_id) == [call |-> name, contact_id |-> contact_id]
CallsNamed(name) == {i \in 1..Len(db.calls) : db.calls[i].call = name}

\* mutant: the select filters by id alone
get_contact_by_id_anyuser(contact_id, user) ==
  IF \E c \in contacts : c.id = contact_id
  THEN CHOOSE c \in contacts : c.id = contact_id
  ELSE NoContact

\* select(Contact).filter_by(id=contact_id, user=user), scalar_one_or_none
get_contact_by_id(contact_id, user) ==
  IF \E c \in contacts : c.id = contact_id /\ c.user = user
  THEN CHOOSE c \in contacts : c.id = contact_id /\ c.user = user
  ELSE NoContact

\* mutant: only first_name is copied from the body
set_fields_first_name(contact, body) ==
  [k \in DOMAIN contact |->
     IF k \in DOMAIN body /\ k = "first_name" THEN body[k] ELSE contact[k]]

\* for key, value in body.dict(exclude_unset=True).items(): setattr(contact, key, value)
set_fields(contact, body) ==
  [k \in DOMAIN contact |-> IF k \in DOMAIN body THEN body[k] ELSE contact[k]]

\* mutant: the row is given to the first user, whoever creates it
create_contact_first_owner(body, user) ==
  LET contact == set_fields([id |-> db.contact_id_seq + 1, user |-> 1,
                             first_name |-> None, phone |-> None], body)
  IN /\ db.contact_id_seq < MaxContacts
     /\ contacts' = contacts \cup {contact}
     /\ db' = [calls |-> <<Call("add", contact.id), Call("commit", 0),
                           Call("refresh", contact.id)>>,
               contact_id_seq |-> contact.id]
     /\ last' = Response("create_contact", <<contact.id, user>>, 0, None, contact)
     /\ UNCHANGED <<users, cache, tasks, tokens, now, reqs>>

\* Contact(**body.model_dump(exclude_unset=True), user=user), add, commit,
\* refresh, and the row read back
create_contact(body, user) ==
  LET contact == set_fields([id |-> db.contact_id_seq + 1, user |-> user,
                             first_name |-> None, phone |-> None], body)
  IN /\ db.contact_id_seq < MaxContacts
     /\ contacts' = contacts \cup {contact}
     /\ db' = [calls |-> <<Call("add", contact.id), Call("commit", 0),
                           Call("refresh", contact.id)>>,
               contact_id_seq |-> contact.id]
     /\ last' = Response("create_contact", <<contact.id, user>>, 0, None, contact)
     /\ UNCHANGED <<users, cache, tasks, tokens, now, reqs>>

\* ContactService.get_contact: the row of that id among the user's rows
get_contact(contact_id, user) ==
  /\ last' = Response("get_contact", <<contact_id, user>>, 0, None,
                      get_contact_by_id(contact_id, user))
  /\ db' = [db EXCEPT !.calls = <<>>]
  /\ UNCHANGED <<users, cache, tasks, tokens, now, contacts, reqs>>

remove_contact(contact_id, user) ==
  LET contact == get_contact_by_id(contact_id, user)
  IN /\ IF contact # NoContact
        THEN /\ contacts' = contacts \ {contact}
             /\ db' = [db EXCEPT !.calls = <<Call("delete", contact.id), Call("commit", 0)>>]
        ELSE /\ contacts' = contacts
             /\ db' = [db EXCEPT !.calls = <<>>]
     /\ last' = Response("remove_contact", <<contact_id, user>>, 0, None, contact)
     /\ UNCHANGED <<users, cache, tasks, tokens, now, reqs>>

update_contact(contact_id, body, user) ==
  LET contact == get_contact_by_id(contact_id, user)
      updated == set_fields(contact, body)
  IN /\ IF contact # NoContact
        THEN /\ contacts' = (contacts \ {contact}) \cup {updated}
             /\ db' = [db EXCEPT !.calls = <<Call("commit", 0), Call("refresh", contact.id)>>]
             /\ last' = Response("update_contact", <<contact_id, user>>, 0, None, updated)
        ELSE /\ contacts' = contacts
             /\ db' = [db EXCEPT !.calls = <<>>]
             /\ last' = Response("update_contact", <<contact_id, user>>, 0, None, NoContact)
     /\ UNCHANGED <<users, cache, tasks, tokens, now, reqs>>

\* the methods of ContactRepository on one table; an answer names the contact
\* id and the user of the call
NextContacts ==
  \/ \E b \in FullBodies, u \in Owners : create_contact(b, u)
  \/ \E c \in ContactIds, u \in Owners : get_contact(c, u)
  \/ \E c \in ContactIds, u \in Owners : remove_contact(c, u)
  \/ \E c \in ContactIds, b \in Bodies, u \in Owners : update_contact(c, b, u)

SpecContacts == Init /\ [][NextContacts]_vars

Owned(contact_id, user) == \E c \in contacts : c.id = contact_id /\ c.user = user

\* C27: remove_contact for a contact of that id owned by the user deletes that
\* row and no other with one delete and one commit and returns it; when the
\* user has no contact of that id it returns None, the table stays as it is
\* and the session gets no delete and no commit.
C27_RemoveContact ==
  [][last'.op = "remove_contact" => \A c \in ContactIds, u \in Owners :
       (last'.who = <<c, u>> /\ remove_contact(c, u)) =>
         IF Owned(c, u)
         THEN /\ last'.body \in contacts
              /\ last'.body.id = c /\ last'.body.user = u
              /\ contacts' = contacts \ {last'.body}
              /\ Cardinality(CallsNamed("delete")') = 1
              /\ Cardinality(CallsNamed("commit")') = 1
              /\ \A i \in CallsNamed("delete")' : db'.calls[i].contact_id = c
         ELSE /\ last'.body = NoContact
              /\ contacts' = contacts
              /\ CallsNamed("delete")' = {}
              /\ CallsNamed("commit")' = {}]_vars

\* a contact was removed while the other user's contact of the table stays
C27_Witness ==
  /\ last.op = "remove_contact"
  /\ last.body # NoContact
  /\ Cardinality(CallsNamed("delete")) = 1
  /\ \E c \in contacts : c.user # last.body.user

\* C28: update_contact for a contact of that id owned by the user gives every
\* field of the body its value in that row, commits once, refreshes that row
\* and returns it, and leaves every other row as it was; when the user has no
\* contact of that id it returns None and changes nothing.
C28_UpdateContact ==
  [][last'.op = "update_contact" => \A c \in ContactIds, u \in Owners :
       last'.who = <<c, u>> => \A b \in Bodies : update_contact(c, b, u) =>
         IF Owned(c, u)
         THEN /\ last'.body.id = c /\ last'.body.user = u
              /\ \A f \in DOMAIN b : last'.body[f] = b[f]
              /\ last'.body \in contacts'
              /\ contacts' \ {last'.body} = contacts \ {get_contact_by_id(c, u)}
              /\ Cardinality(CallsNamed("commit")') = 1
              /\ \E i \in CallsNamed("refresh")' : db'.calls[i].contact_id = c
         ELSE /\ last'.body = NoContact
              /\ contacts' = contacts
              /\ CallsNamed("commit")' = {}]_vars

\* an update with a commit answered the row it wrote while another row stays
C28_Witness ==
  /\ last.op = "update_contact"
  /\ last.body # NoContact
  /\ Cardinality(contacts) = 2
  /\ Cardinality(CallsNamed("commit")) = 1
  /\ last.body.first_name = "Bob" /\ last.body.phone = "222"

(* ------------------------------------------------- concurrent register *)

\* what the store's create can answer: the record is persisted, or the call
\* fails with a StoreError
StoreOutcomes == {"stored", "StoreError"}

Answered(r, response) == [pc |-> "done", response |-> response]

\* POST /auth/register arrives and the handler runs to its first await
register_request(r, username, email, password, salt) ==
  /\ reqs[r].pc = "idle"
  /\ reqs' = [reqs EXCEPT ![r] = [pc |-> "register_user.get_user_by_email", username |-> username,
                                  email |-> email, password |-> password, salt |-> salt]]
  /\ UNCHANGED <<users, cache, tasks, tokens, now, last, contacts, db>>

\* await user_service.get_user_by_email answers: 409, or on to the next await
register_email_checked(r) ==
  /\ reqs[r].pc = "register_user.get_user_by_email"
  /\ IF get_user_by_email(reqs[r].email) # NoInt
     THEN LET response == Response("register", reqs[r].email, 409, "EmailConflict", NoBody)
          IN /\ reqs' = [reqs EXCEPT ![r] = Answered(r, response)]
             /\ last' = response
     ELSE /\ reqs' = [reqs EXCEPT ![r].pc = "register_user.get_user_by_username"]
          /\ UNCHANGED last
  /\ UNCHANGED <<users, cache, tasks, tokens, now, contacts, db>>

\* await user_service.get_user_by_username answers: 409, or the password is
\* hashed and create_user is awaited
register_username_checked(r) ==
  /\ reqs[r].pc = "register_user.get_user_by_username"
  /\ IF get_user_by_username(reqs[r].username) # NoInt
     THEN LET response == Response("register", reqs[r].email, 409, "UsernameConflict", NoBody)
          IN /\ reqs' = [reqs EXCEPT ![r] = Answered(r, response)]
             /\ last' = response
     ELSE /\ reqs' = [reqs EXCEPT ![r].pc = "register_user.create_user",
                                  ![r].password = get_password_hash(reqs[r].password,
                                                                    reqs[r].salt)]
          /\ UNCHANGED last
  /\ UNCHANGED <<users, cache, tasks, tokens, now, contacts, db>>

\* await user_service.create_user answers; the mail is queued and the record
\* returned, or the StoreError ends the request
register_created(r, outcome) ==
  LET new_user == create_user([username |-> reqs[r].username, email |-> reqs[r].email,
                               password |-> reqs[r].password])
      response == IF outcome = "stored"
                  THEN Response("register", reqs[r].email, 201, None, UserView(new_user))
                  ELSE Response("register", reqs[r].email, 500, "StoreError", NoBody)
  IN /\ reqs[r].pc = "register_user.create_user"
     /\ IF outcome = "stored"
        THEN /\ Len(tasks) < MaxTasks
             /\ users' = Append(users, new_user)
             /\ tasks' = add_task("send_email", new_user.email, new_user.username)
        ELSE UNCHANGED <<users, tasks>>
     /\ reqs' = [reqs EXCEPT ![r] = Answered(r, response)]
     /\ last' = response
     /\ UNCHANGED <<cache, tokens, now, contacts, db>>

\* register requests that run concurrently, and the mail queue
NextRegister ==
  \/ \E r \in Requests, u \in Usernames, e \in Emails, s \in DrawnSalts :
       register_request(r, u, e, "pw1", s)
  \/ \E r \in Requests : register_email_checked(r)
  \/ \E r \in Requests : register_username_checked(r)
  \/ \E r \in Requests, o \in StoreOutcomes : register_created(r, o)
  \/ \E d \in BOOLEAN : run_task(d)

SpecRegister == Init /\ [][NextRegister]_vars

Created(r) == reqs[r].pc = "done" /\ reqs[r].response.status = 201

\* C31: of the register requests that ran concurrently with the same email,
\* or with the same username, at most one was answered 201, and the store has
\* at most one record with that email and at most one with that username.
C31_ConcurrentRegisterUnique ==
  /\ \A r1, r2 \in Requests :
       (/\ Created(r1) /\ Created(r2)
        /\ \/ reqs[r1].response.body.email = reqs[r2].response.body.email
           \/ reqs[r1].response.body.username = reqs[r2].response.body.username) => r1 = r2
  /\ \A i, j \in UserIds :
       (users[i].email = users[j].email \/ users[i].username = users[j].username) => i = j

(* ------------------------------------------------- concurrent resolves *)

\* a protected route is called: jwt.decode and payload["sub"] run to the first
\* await of get_current_user
resolve_request(r, token) ==
  LET username == jwt_decode_sub(token)
  IN /\ reqs[r].pc = "idle"
     /\ IF username = "JWTError"
        THEN LET response == Response("get_current_user", username, 401, "Unauthorized", NoBody)
             IN reqs' = [reqs EXCEPT ![r] = Answered(r, response)] /\ last' = response
        ELSE IF username = "KeyError"
        THEN LET response == Response("get_current_user", username, 500, "KeyError", NoBody)
             IN reqs' = [reqs EXCEPT ![r] = Answered(r, response)] /\ last' = response
        ELSE /\ reqs' = [reqs EXCEPT ![r] = [pc |-> "get_current_user.get_user_by_username",
                                             username |-> username]]
             /\ UNCHANGED last
     /\ UNCHANGED <<users, cache, tasks, tokens, now, contacts, db>>

\* the first await user_service.get_user_by_username answers
resolve_user_loaded(r) ==
  /\ reqs[r].pc = "get_current_user.get_user_by_username"
  /\ IF get_user_by_username(reqs[r].username) = NoInt
     THEN LET response == Response("get_current_user", reqs[r].username, 401,
                                   "Unauthorized", NoBody)
          IN reqs' = [reqs EXCEPT ![r] = Answered(r, response)] /\ last' = response
     ELSE /\ reqs' = [reqs EXCEPT ![r].pc = "get_current_user.redis_get"]
          /\ UNCHANGED last
  /\ UNCHANGED <<users, cache, tasks, tokens, now, contacts, db>>

\* await redis_client.get answers: the cached value is returned, or the store
\* is asked again
resolve_cache_read(r) ==
  /\ reqs[r].pc = "get_current_user.redis_get"
  /\ IF CacheLive(reqs[r].username)
     THEN LET response == Response("get_current_user", reqs[r].username, 200, "cache",
                                   cache[CacheKey(reqs[r].username)].value)
          IN reqs' = [reqs EXCEPT ![r] = Answered(r, response)] /\ last' = response
     ELSE /\ reqs' = [reqs EXCEPT ![r].pc = "get_current_user.get_user_by_username_again"]
          /\ UNCHANGED last
  /\ UNCHANGED <<users, cache, tasks, tokens, now, contacts, db>>

\* the second await user_service.get_user_by_username answers and user_data
\* is built from the record
resolve_user_loaded_again(r) ==
  LET user == get_user_by_username(reqs[r].username)
  IN /\ reqs[r].pc = "get_current_user.get_user_by_username_again"
     /\ IF user = NoInt
        THEN LET response == Response("get_current_user", reqs[r].username, 401,
                                      "Unauthorized", NoBody)
             IN reqs' = [reqs EXCEPT ![r] = Answered(r, response)] /\ last' = response
        ELSE /\ reqs' = [reqs EXCEPT ![r] =
                           [pc |-> "get_current_user.redis_setex", username |-> reqs[r].username,
                            user |-> users[user],
                            user_data |-> [id |-> users[user].id,
                                           username |-> users[user].username,
                                           email |-> users[user].email]]]
             /\ UNCHANGED last
     /\ UNCHANGED <<users, cache, tasks, tokens, now, contacts, db>>

\* mutant: the email is stored where the username belongs
resolve_cache_written_swapped(r) ==
  LET response == Response("get_current_user", reqs[r].username, 200, "store", reqs[r].user)
  IN /\ reqs[r].pc = "get_current_user.redis_setex"
     /\ cache' = CacheSetex(reqs[r].username, CACHE_SECONDS,
                            [reqs[r].user_data EXCEPT !.username = reqs[r].user_data.email])
     /\ reqs' = [reqs EXCEPT ![r] = Answered(r, response)]
     /\ last' = response
     /\ UNCHANGED <<users, tasks, tokens, now, contacts, db>>

\* await redis_client.setex answers and the record is returned
resolve_cache_written(r) ==
  LET response == Response("get_current_user", reqs[r].username, 200, "store", reqs[r].user)
  IN /\ reqs[r].pc = "get_current_user.redis_setex"
     /\ cache' = CacheSetex(reqs[r].username, CACHE_SECONDS, reqs[r].user_data)
     /\ reqs' = [reqs EXCEPT ![r] = Answered(r, response)]
     /\ last' = response
     /\ UNCHANGED <<users, tasks, tokens, now, contacts, db>>

\* the answer of a request has gone out
request_closed(r) ==
  /\ reqs[r].pc = "done"
  /\ reqs' = [reqs EXCEPT ![r] = Idle]
  /\ UNCHANGED <<users, cache, tasks, tokens, now, last, contacts, db>>

\* resolves that run concurrently, next to registration, confirmation and login
NextResolve ==
  \/ \E u \in Usernames, e \in Emails, s \in DrawnSalts : register_user(u, e, "pw1", s)
  \/ \E u \in Usernames : login_user(u, "pw1")
  \/ \E t \in tokens : confirmed_email(t)
  \/ run_task(TRUE)
  \/ \E t \in tokens : Discard(t)
  \/ \E r \in Requests, t \in Presented : resolve_request(r, t)
  \/ \E r \in Requests : resolve_user_loaded(r)
  \/ \E r \in Requests : resolve_cache_read(r)
  \/ \E r \in Requests : resolve_user_loaded_again(r)
  \/ \E r \in Requests : resolve_cache_written(r)
  \/ \E r \in Requests : request_closed(r)

SpecResolve == Init /\ [][NextResolve]_vars

IdNameEmail(u) == [id |-> u.id, username |-> u.username, email |-> u.email]

\* C32: every cache entry user:<U> holds the id, username and email of the
\* record whose username is U, and every resolve that was answered 200, from
\* the cache or from the store, reports the id, username and email of that
\* record, also when two resolves of one user both missed and both wrote.
C32_CacheMatchesStore ==
  /\ \A k \in DOMAIN cache :
       /\ get_user_by_username(k[2]) # NoInt
       /\ cache[k].value = IdNameEmail(users[get_user_by_username(k[2])])
  /\ \A r \in Requests :
       (reqs[r].pc = "done" /\ reqs[r].response.status = 200) =>
          /\ get_user_by_username(reqs[r].response.who) # NoInt
          /\ IdNameEmail(reqs[r].response.body) =
               IdNameEmail(users[get_user_by_username(reqs[r].response.who)])

\* two resolves of one user both missed the cache and both wrote the entry
C32_Witness ==
  /\ \A r \in Requests : /\ reqs[r].pc = "done"
                         /\ reqs[r].response.status = 200
                         /\ reqs[r].response.detail = "store"
  /\ reqs[1].response.who = reqs[2].response.who
  /\ CacheKey(reqs[1].response.who) \in DOMAIN cache

ContactCalls == ContactIds \X Owners
OthersKept(user) ==
  /\ \A x \in contacts : x.user # user => x \in contacts'
  /\ \A x \in contacts' : x.user # user => x \in contacts

\* C33: a read, an update or a removal of contact id c by user U answers a row
\* only if U owns it, answers None and changes nothing when the row of that
\* id is owned by another user, and never adds, changes or removes a row of
\* another user; create_contact gives the new row to U.
C33_ScopedToUser ==
  [][/\ last'.op = "get_contact" => \A in \in ContactCalls :
          (last'.who = in /\ get_contact(in[1], in[2])) =>
            /\ last'.body # NoContact => last'.body.user = in[2]
            /\ ~Owned(in[1], in[2]) => last'.body = NoContact
            /\ contacts' = contacts
     /\ last'.op = "update_contact" => \A in \in ContactCalls :
          last'.who = in => \A b \in Bodies : update_contact(in[1], b, in[2]) =>
            /\ last'.body # NoContact => last'.body.user = in[2]
            /\ ~Owned(in[1], in[2]) => last'.body = NoContact /\ contacts' = contacts
            /\ OthersKept(in[2])
     /\ last'.op = "remove_contact" => \A in \in ContactCalls :
          (last'.who = in /\ remove_contact(in[1], in[2])) =>
            /\ last'.body # NoContact => last'.body.user = in[2]
            /\ ~Owned(in[1], in[2]) => last'.body = NoContact /\ contacts' = contacts
            /\ OthersKept(in[2])
     /\ last'.op = "create_contact" => \A u \in Owners :
          last'.who[2] = u => \A b \in FullBodies : create_contact(b, u) =>
            /\ last'.body.user = u
            /\ contacts' \ contacts = {last'.body}
            /\ OthersKept(u)]_vars

\* a user asked to update a contact that another user owns and got None
C33_Witness ==
  /\ last.op = "update_contact"
  /\ last.body = NoContact
  /\ \E x \in contacts : x.id = last.who[1] /\ x.user # last.who[2]

(* ------------------------------------------------------------ birthdays *)

DAY_SECONDS == 24 * 60 * 60

\* the calendar of the clock: instant 0 is the first of January of a year of
\* 365 days, and so is the year after it
MonthLengths == <<31, 28, 31, 30, 31, 30, 31, 31, 30, 31, 30, 31>>
YearDays == 31 + 28 + 31 + 30 + 31 + 30 + 31 + 31 + 30 + 31 + 30 + 31

RECURSIVE MonthDayFrom(_, _)
MonthDayFrom(month, day_of_year) ==
  IF day_of_year < MonthLengths[month] THEN <<month, day_of_year + 1>>
  ELSE MonthDayFrom(month + 1, day_of_year - MonthLengths[month])

\* the month and day of the date that is `days' days after the first of
\* January of the first year
MonthDay(days) == MonthDayFrom(1, days % YearDays)

\* date.today() and today + timedelta(days=n), as days of the calendar
Today == now \div DAY_SECONDS
UPCOMING_DAYS == 7

\* strftime("%m-%d") and to_char(birthday, 'MM-DD'): five characters, the
\* digits zero-padded, as character codes
Digit(n) == 48 + n
MMDD(md) ==
  <<Digit(md[1] \div 10), Digit(md[1] % 10), 45, Digit(md[2] \div 10), Digit(md[2] % 10)>>

\* comparison of two strings of one length, character by character
StrLeq(a, b) ==
  \/ a = b
  \/ \E i \in 1..Len(a) : a[i] < b[i] /\ \A j \in 1..(i - 1) : a[j] = b[j]

\* SQL: x BETWEEN low AND high
between(x, low, high) == StrLeq(low, x) /\ StrLeq(x, high)

\* the rows of the user whose MM-DD lies between the MM-DD of today and of
\* today + 7 days
get_upcoming_birthday(user) ==
  LET today == Today
      end_date == today + UPCOMING_DAYS
      rows == {c \in contacts : /\ c.user = user
                                /\ between(MMDD(c.birthday), MMDD(MonthDay(today)),
                                           MMDD(MonthDay(end_date)))}
  IN /\ last' = Response("get_upcoming_birthday", user, 0, None, [contacts |-> rows])
     /\ UNCHANGED <<users, cache, tasks, tokens, now, contacts, db, reqs>>

\* every month and day a birthday can have, and every day of the first year
Birthdays ==
  {MonthDay(n) : n \in 0..(YearDays - 1)} \cup {<<2, 29>>}
BirthdayTables ==
  {{[id |-> 1, user |-> 1, first_name |-> "Ann", phone |-> "111", birthday |-> b]} :
     b \in Birthdays}

\* a table with one contact with a birthday, on some day of the year
InitBirthday ==
  /\ users = <<>>
  /\ cache = <<>>
  /\ tasks = <<>>
  /\ tokens = {}
  /\ now \in {n * DAY_SECONDS : n \in 0..(YearDays - 1)}
  /\ last = Response("start", None, 0, None, NoBody)
  /\ contacts \in BirthdayTables
  /\ db = [calls |-> <<>>, contact_id_seq |-> 1]
  /\ reqs = [r \in Requests |-> Idle]

NextBirthday == \E u \in Owners : get_upcoming_birthday(u)

SpecBirthday == InitBirthday /\ [][NextBirthday]_vars

\* the order of two <<month, day>> within a year
MonthDayLeq(a, b) == a[1] < b[1] \/ (a[1] = b[1] /\ a[2] <= b[2])

\* the month and day lies in the 8 days that start today, which can end in
\* the first days of the next year
Upcoming(birthday) ==
  LET first == MonthDay(Today)
      final == MonthDay(Today + UPCOMING_DAYS)
  IN IF MonthDayLeq(first, final)
     THEN MonthDayLeq(first, birthday) /\ MonthDayLeq(birthday, final)
     ELSE MonthDayLeq(first, birthday) \/ MonthDayLeq(birthday, final)

\* C34: get_upcoming_birthday(user) answers exactly the contacts of the user
\* whose birthday's month and day lies between today and today + 7 days,
\* both included, whatever day today is and whatever the birthday.
C34_UpcomingBirthday ==
  [][last'.op = "get_upcoming_birthday" => \A u \in Owners :
       (last'.who = u /\ get_upcoming_birthday(u)) =>
         last'.body.contacts = {c \in contacts : c.user = u /\ Upcoming(c.birthday)}]_vars
====
